---- MODULE Spec2Model ----
(***************************************************************************)
(* The daily briefing emailer (daily_briefing_emailer.py): three source    *)
(* clients (weather, news, word of the day), the renderer, the SMTP        *)
(* delivery and the main sequence, as one state machine.  The outside      *)
(* world (HTTP endpoints, the HTTP client's construction and closing, the  *)
(* SMTP server, the environment variables) is nondeterministic.            *)
(***************************************************************************)
EXTENDS Integers, Sequences, FiniteSets

(***************************************************************************)
(* Bounds of the model.                                                    *)
(***************************************************************************)
\* The largest number of articles the news endpoint puts in one body.
MaxArticles == 4

(***************************************************************************)
(* JSON / Python values.  Every value is a record [t, v] so that values of *)
(* different Python types stay comparable.                                 *)
(***************************************************************************)
\* A str is the sequence of the pieces it was put together from, so that an
\* f-string is a concatenation and "contains" can be asked of it.
JStr(s) == [t |-> "str", v |-> IF s = "" THEN <<>> ELSE <<s>>]
JNum(s) == [t |-> "num", v |-> <<s>>]
JNull == [t |-> "null", v |-> <<>>]
JList(items) == [t |-> "list", v |-> items]
JDict(fields) == [t |-> "dict", v |-> fields]
\* A Python name that has not been assigned yet.
Unset == [t |-> "unset", v |-> <<>>]

\* The pieces an f-string field {x} contributes: None prints as "None", a
\* list or a dict by its repr.
Format(x) ==
  CASE x.t \in {"str", "num"} -> x.v
    [] x.t = "null" -> <<"None">>
    [] OTHER -> <<"repr">>

\* f"{prefix}{x}" for a literal prefix.
FString(prefix, pieces) == [t |-> "str", v |-> <<prefix>> \o pieces]

Contains(x, piece) == x.t = "str" /\ \E i \in 1..Len(x.v) : x.v[i] = piece

\* str.title() on the pieces the model uses.
TitlePiece(s) ==
  CASE s = "clear sky" -> "Clear Sky"
    [] s = "serendipity" -> "Serendipity"
    [] OTHER -> s

TitleCase(x) == [t |-> "str", v |-> [i \in 1..Len(x.v) |-> TitlePiece(x.v[i])]]

(***************************************************************************)
(* Configuration (module level).                                           *)
(***************************************************************************)
CITIES == <<"Casablanca", "Paris", "New York">>
RECEIVER_EMAIL == JStr("RECEIVER_EMAIL")

\* What os.getenv(name) can be: None when unset, the empty string, a value.
EnvValues == {JNull, JStr(""), JStr("set")}

\* Python truthiness of an os.getenv result or a str constant.
Truthy(x) == x.t = "str" /\ x.v # <<>>

(***************************************************************************)
(* HTTP.  A GET either fails in the transport or yields a response with a  *)
(* status and a body; a body is JSON text or not.                          *)
(***************************************************************************)
StatusText(code) ==
  CASE code = 200 -> "200"
    [] code = 401 -> "401"
    [] code = 503 -> "503"

IsSuccessStatus(code) == code \in 200..299

NotJson == [json |-> FALSE, doc |-> JNull]
Json(doc) == [json |-> TRUE, doc |-> doc]

NetError == [net |-> "error", status |-> 0, body |-> NotJson]
HttpResponse(code, body) == [net |-> "ok", status |-> code, body |-> body]

\* The answers to one GET of an endpoint that uses the status codes `codes`
\* and whose 2xx bodies are `bodies`.
Responses(codes, bodies) ==
  {NetError}
    \cup {HttpResponse(c, NotJson) : c \in {s \in codes : ~IsSuccessStatus(s)}}
    \cup {HttpResponse(c, b) : c \in {s \in codes : IsSuccessStatus(s)}, b \in bodies}

\* Exceptions in flight and values being returned, through a with-block exit.
Raise(kind, detail) == [exc |-> kind, detail |-> detail, ret |-> Unset]
Return(value) == [exc |-> "none", detail |-> "", ret |-> value]
Raised(outcome) == outcome.exc # "none"

\* client.get(url); response.raise_for_status(); response.json():
\* the parsed document, or the exception the three calls raise.
FetchJson(resp) ==
  IF resp.net = "error" THEN Raise("Exception", "ConnectError")
  ELSE IF ~IsSuccessStatus(resp.status)
    THEN Raise("HTTPStatusError", StatusText(resp.status))
  ELSE IF ~resp.body.json THEN Raise("Exception", "JSONDecodeError")
  ELSE Return(resp.body.doc)

\* The exception that leaves a with-block: one raised by __exit__ replaces
\* whatever was pending (a return value or an exception of the body).
AfterExit(pending, exitOk, exitError) ==
  IF exitOk THEN pending ELSE Raise("Exception", exitError)

\* x[key]: key is a dict key, or "[0]" for the index 0.
Item(x, key) ==
  IF key = "[0]"
    THEN IF x.t = "list"
           THEN IF Len(x.v) > 0 THEN Return(x.v[1]) ELSE Raise("Exception", "IndexError")
         ELSE IF x.t = "dict" THEN Raise("Exception", "KeyError")
         ELSE Raise("Exception", "TypeError")
  ELSE IF x.t = "dict"
    THEN IF key \in DOMAIN x.v THEN Return(x.v[key]) ELSE Raise("Exception", "KeyError")
  ELSE Raise("Exception", "TypeError")

\* x[k1][k2]...: the value, or the first exception on the way.
RECURSIVE Path(_, _)
Path(x, keys) ==
  IF keys = <<>> THEN Return(x)
  ELSE LET r == Item(x, Head(keys))
       IN IF Raised(r) THEN r ELSE Path(r.ret, Tail(keys))

(***************************************************************************)
(* State.                                                                  *)
(***************************************************************************)
VARIABLES
  sched,            \* "sequential": main as written; "any": the three fetches interleave
  WORDNIK_API_KEY, SENDER_EMAIL, SENDER_PASSWORD,
  pcMain,           \* position of the main block
  console,          \* the lines printed so far
  wpc, wi, weather_data, weatherGets, weatherEnv, weather,
  npc, newsPending, newsGets, newsEnv, news,
  dpc, wordPending, wordGets, wordEnv, word_day,
  email_body,
  spc, smtpPending, smtpSessions, smtpLog, sentMessages

configVars == <<sched, WORDNIK_API_KEY, SENDER_EMAIL, SENDER_PASSWORD>>
mainVars == <<pcMain, console, email_body>>
weatherVars == <<wpc, wi, weather_data, weatherGets, weatherEnv, weather>>
newsVars == <<npc, newsPending, newsGets, newsEnv, news>>
wordVars == <<dpc, wordPending, wordGets, wordEnv, word_day>>
smtpVars == <<spc, smtpPending, smtpSessions, smtpLog, sentMessages>>
vars == <<configVars, mainVars, weatherVars, newsVars, wordVars, smtpVars>>

\* What the outside world did to one client, as far as it has acted:
\* whether httpx.Client() was constructed, the responses to its GETs in
\* order, and whether closing the client succeeded.
NoEnv == [create |-> "pending", resps |-> <<>>, close |-> "pending"]

\* May a source client be called now?  As written the calls are
\* weather, news, word, each after the one before returned.
CanStart(client) ==
  /\ pcMain = "fetch"
  /\ sched = "sequential" =>
       CASE client = "weather" -> TRUE
         [] client = "news" -> wpc = "returned"
         [] client = "word" -> npc = "returned"

(***************************************************************************)
(* 1. get_weather_data                                                     *)
(***************************************************************************)
WeatherDoc(description) ==
  JDict([main |-> JDict([temp |-> JNum("21.5")]),
         weather |-> JList(<<JDict([description |-> description,
                                    icon |-> JStr("01d")])>>)])

\* 2xx bodies of the weather endpoint: well formed, and one with the "main"
\* object missing and no element in "weather".
WeatherBodies ==
  {Json(WeatherDoc(JStr("clear sky"))),
   Json(JDict([weather |-> JList(<<>>)]))}

WeatherStatuses == {200, 401}

\* The dict literal of the try body: the three subscripts in order.
WeatherSuccess(data) ==
  LET temp == Path(data, <<"main", "temp">>)
      description == Path(data, <<"weather", "[0]", "description">>)
      icon == Path(data, <<"weather", "[0]", "icon">>)
  IN IF Raised(temp) THEN temp
     ELSE IF Raised(description) THEN description
     ELSE IF Raised(icon) THEN icon
     ELSE Return([temp |-> temp.ret, description |-> description.ret, icon |-> icon.ret])

\* The record one iteration of the loop stores for its city.
WeatherRecord(resp) ==
  LET fetched == FetchJson(resp)
      built == IF Raised(fetched) THEN fetched ELSE WeatherSuccess(fetched.ret)
  IN IF built.exc = "HTTPStatusError"
       THEN [error |-> FString("Could not retrieve weather: ", <<built.detail>>)]
     ELSE IF Raised(built)
       THEN [error |-> FString("An error occurred: ", <<built.detail>>)]
     ELSE built.ret

\* A loop that leaves a failed city out of the mapping.
StoreSkippingFailures(data, city, record) ==
  IF "error" \in DOMAIN record THEN data
  ELSE [c \in DOMAIN data \cup {city} |-> IF c = city THEN record ELSE data[c]]

\* weather_data[city] = record
Store(data, city, record) ==
  [c \in DOMAIN data \cup {city} |-> IF c = city THEN record ELSE data[c]]

\* A loop that a failed city ends.
AfterCityStoppingOnFailure(i, record) ==
  IF "error" \in DOMAIN record THEN Len(CITIES) + 1 ELSE i + 1

\* The loop's next position after the iteration that stored `record`.
AfterCity(i, record) == i + 1

\* weather_data = {}; with httpx.Client() as client:
WeatherEnter ==
  /\ wpc = "idle"
  /\ CanStart("weather")
  /\ \E created \in BOOLEAN :
       IF created
         THEN /\ wpc' = "loop"
              /\ wi' = 1
              /\ weather_data' = << >>
              /\ weatherEnv' = [weatherEnv EXCEPT !.create = "ok"]
              /\ UNCHANGED pcMain
         ELSE /\ wpc' = "raised"
              /\ weatherEnv' = [weatherEnv EXCEPT !.create = "failed"]
              /\ pcMain' = "crashed"
              /\ UNCHANGED <<wi, weather_data>>
  /\ UNCHANGED <<weatherGets, weather, console, email_body>>
  /\ UNCHANGED <<configVars, newsVars, wordVars, smtpVars>>

\* One iteration of "for city in CITIES": the try body and its handlers.
WeatherGet ==
  /\ wpc = "loop"
  /\ wi <= Len(CITIES)
  /\ \E resp \in Responses(WeatherStatuses, WeatherBodies) :
       LET city == CITIES[wi]
           record == WeatherRecord(resp)
       IN /\ weatherGets' = Append(weatherGets, city)
          /\ weatherEnv' = [weatherEnv EXCEPT !.resps = Append(@, resp)]
          /\ weather_data' = Store(weather_data, city, record)
          /\ wi' = AfterCity(wi, record)
  /\ UNCHANGED <<wpc, weather>>
  /\ UNCHANGED <<configVars, mainVars, newsVars, wordVars, smtpVars>>

\* The with-block's exit, then "return weather_data".
WeatherExit ==
  /\ wpc = "loop"
  /\ wi > Len(CITIES)
  /\ \E closed \in BOOLEAN :
       IF closed
         THEN /\ wpc' = "returned"
              /\ weather' = weather_data
              /\ weatherEnv' = [weatherEnv EXCEPT !.close = "ok"]
              /\ UNCHANGED pcMain
         ELSE /\ wpc' = "raised"
              /\ weatherEnv' = [weatherEnv EXCEPT !.close = "failed"]
              /\ pcMain' = "crashed"
              /\ UNCHANGED weather
  /\ UNCHANGED <<wi, weather_data, weatherGets, console, email_body>>
  /\ UNCHANGED <<configVars, newsVars, wordVars, smtpVars>>

(***************************************************************************)
(* 2. get_news_headlines                                                   *)
(***************************************************************************)
Headlines == <<"h1", "h2", "h3", "h4", "h5", "h6">>

\* The i-th article of a body; the url is optional and the first has none.
Article(i) ==
  IF i = 1
    THEN JDict([title |-> JStr(Headlines[i]), description |-> JStr("summary")])
    ELSE JDict([title |-> JStr(Headlines[i]), description |-> JStr("summary"),
                url |-> JStr("link")])

\* 2xx bodies of the news endpoint: not JSON, no "articles" key, a null
\* "articles", a list holding something that is no object, and lists of 0
\* to MaxArticles articles (pageSize is a request to the server, which
\* decides what it sends).
NewsBodies ==
  {NotJson,
   Json(JDict([status |-> JStr("error")])),
   Json(JDict([articles |-> JNull])),
   Json(JDict([articles |-> JList(<<JStr("text")>>)]))}
    \cup {Json(JDict([articles |-> JList([i \in 1..n |-> Article(i)])])) : n \in 0..MaxArticles}

NewsStatuses == {200, 401, 503}

\* pageSize=3 in the request's query string.
PageSize == 3

ErrorArticle(description) ==
  JList(<<JDict([title |-> JStr("Error fetching news"), description |-> description])>>)

\* The with body: get, raise_for_status, return response.json()["articles"].
NewsBody(resp) ==
  LET fetched == FetchJson(resp)
  IN IF Raised(fetched) THEN fetched ELSE Item(fetched.ret, "articles")

\* What the function returns for what left the try statement.
NewsResult(outcome) ==
  IF outcome.exc = "HTTPStatusError"
    THEN ErrorArticle(FString("Could not retrieve news: ", <<outcome.detail>>))
  ELSE IF Raised(outcome)
    THEN ErrorArticle(FString("An error occurred: ", <<outcome.detail>>))
  ELSE outcome.ret

\* try: with httpx.Client() as client:
NewsEnter ==
  /\ npc = "idle"
  /\ CanStart("news")
  /\ \E created \in BOOLEAN :
       IF created
         THEN /\ npc' = "opened"
              /\ newsEnv' = [newsEnv EXCEPT !.create = "ok"]
              /\ UNCHANGED news
         ELSE /\ npc' = "returned"
              /\ newsEnv' = [newsEnv EXCEPT !.create = "failed"]
              /\ news' = NewsResult(Raise("Exception", "ClientInitError"))
  /\ UNCHANGED <<newsPending, newsGets>>
  /\ UNCHANGED <<configVars, mainVars, weatherVars, wordVars, smtpVars>>

\* The same step on one HTTP client shared by the sources: once the weather
\* client's with block has closed it, the request cannot be sent.
NewsGetOnSharedClient ==
  /\ npc = "opened"
  /\ \E resp \in Responses(NewsStatuses, NewsBodies) :
       /\ newsEnv' = [newsEnv EXCEPT !.resps = Append(@, resp)]
       /\ newsPending' = IF wpc \in {"returned", "raised"}
                           THEN Raise("Exception", "ClientClosed")
                           ELSE NewsBody(resp)
  /\ newsGets' = newsGets + 1
  /\ npc' = "exiting"
  /\ UNCHANGED news
  /\ UNCHANGED <<configVars, mainVars, weatherVars, wordVars, smtpVars>>

\* url = ...; response = client.get(url); response.raise_for_status();
\* return response.json()["articles"]
NewsGet ==
  /\ npc = "opened"
  /\ \E resp \in Responses(NewsStatuses, NewsBodies) :
       /\ newsEnv' = [newsEnv EXCEPT !.resps = Append(@, resp)]
       /\ newsPending' = NewsBody(resp)
  /\ newsGets' = newsGets + 1
  /\ npc' = "exiting"
  /\ UNCHANGED news
  /\ UNCHANGED <<configVars, mainVars, weatherVars, wordVars, smtpVars>>

\* The with-block's exit, then the handlers or the return.
NewsExit ==
  /\ npc = "exiting"
  /\ \E closed \in BOOLEAN :
       /\ newsEnv' = [newsEnv EXCEPT !.close = IF closed THEN "ok" ELSE "failed"]
       /\ news' = NewsResult(AfterExit(newsPending, closed, "CloseError"))
  /\ npc' = "returned"
  /\ UNCHANGED <<newsPending, newsGets>>
  /\ UNCHANGED <<configVars, mainVars, weatherVars, wordVars, smtpVars>>

(***************************************************************************)
(* 3. get_word_of_the_day                                                  *)
(***************************************************************************)
WordDoc(w) ==
  JDict([word |-> w,
         definitions |-> JList(<<JDict([text |-> JStr("a happy accident")])>>)])

\* 2xx bodies of the word endpoint: well formed, a null word, no
\* definition.
WordBodies ==
  {Json(WordDoc(JStr("serendipity"))),
   Json(WordDoc(JNull)),
   Json(JDict([word |-> JStr("serendipity"), definitions |-> JList(<<>>)]))}

WordStatuses == {200, 503}

WordRecord(w, definition) == JDict([word |-> w, definition |-> definition])

\* WORDNIK_API_KEY is None
KeyIsNone(key) == key.t = "null"

\* not WORDNIK_API_KEY
KeyMissing(key) == ~Truthy(key)

\* The with body: get, raise_for_status, json, the dict literal.
WordBody(resp) ==
  LET fetched == FetchJson(resp)
      w == Path(fetched.ret, <<"word">>)
      text == Path(fetched.ret, <<"definitions", "[0]", "text">>)
  IN IF Raised(fetched) THEN fetched
     ELSE IF Raised(w) THEN w
     ELSE IF Raised(text) THEN text
     ELSE Return(WordRecord(w.ret, text.ret))

WordResult(outcome) ==
  IF outcome.exc = "HTTPStatusError"
    THEN WordRecord(JStr("Error"),
                    FString("Could not retrieve word of the day: ", <<outcome.detail>>))
  ELSE IF Raised(outcome)
    THEN WordRecord(JStr("Error"), FString("An error occurred: ", <<outcome.detail>>))
  ELSE outcome.ret

\* The key check, then try: with httpx.Client() as client:
WordEnter ==
  /\ dpc = "idle"
  /\ CanStart("word")
  /\ IF KeyMissing(WORDNIK_API_KEY)
       THEN /\ dpc' = "returned"
            /\ word_day' = WordRecord(JStr("N/A"), JStr("WORDNIK_API_KEY not set."))
            /\ UNCHANGED wordEnv
       ELSE \E created \in BOOLEAN :
              IF created
                THEN /\ dpc' = "opened"
                     /\ wordEnv' = [wordEnv EXCEPT !.create = "ok"]
                     /\ UNCHANGED word_day
                ELSE /\ dpc' = "returned"
                     /\ wordEnv' = [wordEnv EXCEPT !.create = "failed"]
                     /\ word_day' = WordResult(Raise("Exception", "ClientInitError"))
  /\ UNCHANGED <<wordPending, wordGets>>
  /\ UNCHANGED <<configVars, mainVars, weatherVars, newsVars, smtpVars>>

WordGet ==
  /\ dpc = "opened"
  /\ \E resp \in Responses(WordStatuses, WordBodies) :
       /\ wordEnv' = [wordEnv EXCEPT !.resps = Append(@, resp)]
       /\ wordPending' = WordBody(resp)
  /\ wordGets' = wordGets + 1
  /\ dpc' = "exiting"
  /\ UNCHANGED word_day
  /\ UNCHANGED <<configVars, mainVars, weatherVars, newsVars, smtpVars>>

WordExit ==
  /\ dpc = "exiting"
  /\ \E closed \in BOOLEAN :
       /\ wordEnv' = [wordEnv EXCEPT !.close = IF closed THEN "ok" ELSE "failed"]
       /\ word_day' = WordResult(AfterExit(wordPending, closed, "CloseError"))
  /\ dpc' = "returned"
  /\ UNCHANGED <<wordPending, wordGets>>
  /\ UNCHANGED <<configVars, mainVars, weatherVars, newsVars, smtpVars>>

(***************************************************************************)
(* 4. create_email_body                                                    *)
(***************************************************************************)
\* dict.get(key, default)
Get(x, key, default) ==
  IF x.t # "dict" THEN Raise("Exception", "AttributeError")
  ELSE IF key \in DOMAIN x.v THEN Return(x.v[key])
  ELSE Return(default)

\* x.title()
Title(x) ==
  IF x.t = "str" THEN Return(TitleCase(x)) ELSE Raise("Exception", "AttributeError")

\* The pieces of several f-string fields one after the other, or the
\* exception of the first field that raises.
RECURSIVE Fields(_)
Fields(outcomes) ==
  IF outcomes = <<>> THEN Return(<<>>)
  ELSE LET first == Head(outcomes)
           rest == Fields(Tail(outcomes))
       IN IF Raised(first) THEN first
          ELSE IF Raised(rest) THEN rest
          ELSE Return(first.ret \o rest.ret)

Pieces(outcome) == IF Raised(outcome) THEN outcome ELSE Return(Format(outcome.ret))

get_weather_html(city_name, data) ==
  IF "error" \in DOMAIN data
    THEN Return(<<city_name>> \o Format(data.error))
    ELSE Fields(<<Return(<<city_name>>),
                  Return(Format(data.icon)),
                  Return(Format(data.temp)),
                  Pieces(Title(data.description))>>)

get_news_html(article) ==
  Fields(<<Pieces(Get(article, "url", JStr("#"))),
           Pieces(Get(article, "title", JStr("N/A"))),
           Pieces(Get(article, "description", JStr("No description available.")))>>)

\* weather_data.items(): the cities in the order they were inserted.
Items(data) == SelectSeq(CITIES, LAMBDA c : c \in DOMAIN data)

\* "".join([... for article in news_articles])
NewsSection(news_articles) ==
  IF news_articles.t = "list"
    THEN Fields([i \in 1..Len(news_articles.v) |-> get_news_html(news_articles.v[i])])
    ELSE Raise("Exception", "TypeError")

WordSection(word_of_the_day) ==
  LET w == Get(word_of_the_day, "word", JStr("N/A"))
  IN Fields(<<Pieces(IF Raised(w) THEN w ELSE Title(w.ret)),
              Pieces(Get(word_of_the_day, "definition", JStr("N/A")))>>)

create_email_body(weather_data_, news_articles, word_of_the_day) ==
  LET cities == Items(weather_data_)
      html == Fields(<<Return(<<"Daily Briefing">>),
                       Fields([i \in 1..Len(cities) |->
                                 get_weather_html(cities[i], weather_data_[cities[i]])]),
                       NewsSection(news_articles),
                       WordSection(word_of_the_day)>>)
  IN IF Raised(html) THEN html ELSE Return([t |-> "str", v |-> html.ret])

(***************************************************************************)
(* 5. send_email                                                           *)
(***************************************************************************)
\* not SENDER_EMAIL
OnlySenderMissing == ~Truthy(SENDER_EMAIL)

\* not all([SENDER_EMAIL, SENDER_PASSWORD, RECEIVER_EMAIL])
CredentialsMissing ==
  ~(Truthy(SENDER_EMAIL) /\ Truthy(SENDER_PASSWORD) /\ Truthy(RECEIVER_EMAIL))

\* print(line)
Printed(line) == Append(console, line)

\* The line the except clauses print for what left the try statement.
DeliveryReport(outcome) ==
  IF outcome.exc = "SMTPAuthenticationError"
    THEN <<"Error: SMTP authentication failed. Check your email/password or app password.">>
  ELSE IF Raised(outcome)
    THEN <<"An error occurred while sending the email">>
  ELSE <<>>

\* print("Sending email..."); send_email(email_body) up to the try
\* statement: the credentials check, or the message.
SendEmail ==
  /\ pcMain = "send"
  /\ IF CredentialsMissing
       THEN /\ console' = console \o <<"Sending email...",
                                       "Email credentials not set. Skipping email delivery.">>
            /\ pcMain' = "finish"
            /\ UNCHANGED spc
       ELSE /\ console' = Printed("Sending email...")
            /\ pcMain' = "sending"
            /\ spc' = "connect"
  /\ UNCHANGED <<email_body, smtpPending, smtpSessions, smtpLog, sentMessages>>
  /\ UNCHANGED <<configVars, weatherVars, newsVars, wordVars>>

\* send_email returns to main after what left the try statement was handled.
Delivered(outcome) ==
  /\ console' = console \o DeliveryReport(outcome)
  /\ smtpPending' = outcome
  /\ spc' = "closed"
  /\ pcMain' = "finish"

\* smtplib.SMTP("smtp.gmail.com", 587): the constructor connects; when it
\* fails the with block is never entered.
SmtpConnect ==
  /\ spc = "connect"
  /\ smtpSessions' = smtpSessions + 1
  /\ \E connected \in BOOLEAN :
       IF connected
         THEN /\ spc' = "starttls"
              /\ UNCHANGED <<pcMain, console, smtpPending>>
         ELSE Delivered(Raise("Exception", "ConnectError"))
  /\ UNCHANGED <<email_body, smtpLog, sentMessages>>
  /\ UNCHANGED <<configVars, weatherVars, newsVars, wordVars>>

\* server.starttls()
SmtpStartTls ==
  /\ spc = "starttls"
  /\ \E ok \in BOOLEAN :
       /\ smtpLog' = Append(smtpLog, <<"starttls", IF ok THEN "ok" ELSE "failed">>)
       /\ IF ok
            THEN spc' = "login" /\ UNCHANGED smtpPending
            ELSE spc' = "exit" /\ smtpPending' = Raise("Exception", "StartTlsError")
  /\ UNCHANGED <<smtpSessions, sentMessages>>
  /\ UNCHANGED <<configVars, mainVars, weatherVars, newsVars, wordVars>>

\* server.login(SENDER_EMAIL, SENDER_PASSWORD)
SmtpLogin ==
  /\ spc = "login"
  /\ \E result \in {"ok", "refused", "failed"} :
       /\ smtpLog' = Append(smtpLog, <<"login", result>>)
       /\ CASE result = "ok" -> spc' = "send_message" /\ UNCHANGED smtpPending
            [] result = "refused" ->
                 spc' = "exit" /\ smtpPending' = Raise("SMTPAuthenticationError", "535")
            [] result = "failed" ->
                 spc' = "exit" /\ smtpPending' = Raise("Exception", "LoginError")
  /\ UNCHANGED <<smtpSessions, sentMessages>>
  /\ UNCHANGED <<configVars, mainVars, weatherVars, newsVars, wordVars>>

\* server.send_message(msg); print("Email sent successfully!")
SmtpSendMessage ==
  /\ spc = "send_message"
  /\ \E ok \in BOOLEAN :
       /\ smtpLog' = Append(smtpLog, <<"send_message", IF ok THEN "ok" ELSE "failed">>)
       /\ IF ok
            THEN /\ sentMessages' = sentMessages + 1
                 /\ console' = Printed("Email sent successfully!")
                 /\ UNCHANGED smtpPending
            ELSE /\ smtpPending' = Raise("Exception", "SendError")
                 /\ UNCHANGED <<sentMessages, console>>
  /\ spc' = "exit"
  /\ UNCHANGED <<pcMain, email_body, smtpSessions>>
  /\ UNCHANGED <<configVars, weatherVars, newsVars, wordVars>>

\* The with-block's exit (SMTP.__exit__ sends QUIT and raises when the
\* server's reply is not 221), then the except clauses.
SmtpExit ==
  /\ spc = "exit"
  /\ \E quit \in BOOLEAN :
       Delivered(AfterExit(smtpPending, quit, "SMTPResponseException"))
  /\ UNCHANGED <<email_body, smtpSessions, smtpLog, sentMessages>>
  /\ UNCHANGED <<configVars, weatherVars, newsVars, wordVars>>

(***************************************************************************)
(* Main execution.                                                         *)
(***************************************************************************)
\* print("Fetching data for the daily briefing...")
MainStart ==
  /\ pcMain = "start"
  /\ console' = Printed("Fetching data for the daily briefing...")
  /\ pcMain' = "fetch"
  /\ UNCHANGED email_body
  /\ UNCHANGED <<configVars, weatherVars, newsVars, wordVars, smtpVars>>

\* print("Creating email body..."); email_body = create_email_body(...)
MainRender ==
  /\ pcMain = "fetch"
  /\ wpc = "returned" /\ npc = "returned" /\ dpc = "returned"
  /\ console' = Printed("Creating email body...")
  /\ LET rendered == create_email_body(weather, news, word_day)
     IN IF Raised(rendered)
          THEN pcMain' = "crashed" /\ UNCHANGED email_body
          ELSE pcMain' = "send" /\ email_body' = rendered.ret
  /\ UNCHANGED <<configVars, weatherVars, newsVars, wordVars, smtpVars>>

\* print("Script finished.")
MainFinish ==
  /\ pcMain = "finish"
  /\ console' = Printed("Script finished.")
  /\ pcMain' = "done"
  /\ UNCHANGED email_body
  /\ UNCHANGED <<configVars, weatherVars, newsVars, wordVars, smtpVars>>

(***************************************************************************)
(* Specifications.                                                         *)
(***************************************************************************)
InitState ==
  /\ WORDNIK_API_KEY \in EnvValues
  /\ pcMain = "start"
  /\ console = <<>>
  /\ email_body = Unset
  /\ wpc = "idle" /\ wi = 1 /\ weather_data = << >> /\ weatherGets = <<>>
  /\ weatherEnv = NoEnv /\ weather = << >>
  /\ npc = "idle" /\ newsPending = Return(Unset) /\ newsGets = 0
  /\ newsEnv = NoEnv /\ news = Unset
  /\ dpc = "idle" /\ wordPending = Return(Unset) /\ wordGets = 0
  /\ wordEnv = NoEnv /\ word_day = Unset
  /\ spc = "idle" /\ smtpPending = Return(Unset) /\ smtpSessions = 0
  /\ smtpLog = <<>> /\ sentMessages = 0

\* The program as written: weather, then news, then word.
Init ==
  /\ sched = "sequential"
  /\ SENDER_EMAIL \in EnvValues
  /\ SENDER_PASSWORD \in EnvValues
  /\ InitState

\* The three fetches called in any order and interleaved, as a
\* reimplementation may; the sender is configured, with or without a
\* password.
InitAnyOrder ==
  /\ sched = "any"
  /\ SENDER_EMAIL = JStr("set")
  /\ SENDER_PASSWORD \in {JStr(""), JStr("set")}
  /\ InitState

Next ==
  \/ MainStart
  \/ WeatherEnter \/ WeatherGet \/ WeatherExit
  \/ NewsEnter \/ NewsGet \/ NewsExit
  \/ WordEnter \/ WordGet \/ WordExit
  \/ MainRender
  \/ SendEmail
  \/ SmtpConnect \/ SmtpStartTls \/ SmtpLogin \/ SmtpSendMessage \/ SmtpExit
  \/ MainFinish

Spec == Init /\ [][Next]_vars

SpecAnyOrder == InitAnyOrder /\ [][Next]_vars

(***************************************************************************)
(* Properties.                                                             *)
(***************************************************************************)
Cities == {CITIES[i] : i \in 1..Len(CITIES)}

IsSuccessRecord(record) == DOMAIN record = {"temp", "description", "icon"}

IsFailureRecord(record) == DOMAIN record = {"error"} /\ record.error.t = "str"

WellFormedWeather == HttpResponse(200, Json(WeatherDoc(JStr("clear sky"))))

MissingFieldWeather == HttpResponse(200, Json(JDict([weather |-> JList(<<>>)])))

\* C1: whatever the per-city requests gave, the mapping get_weather_data
\* returns has exactly the configured cities as its keys, and each entry is
\* a success record (temp, description, icon) or a failure record (error).
C1_WeatherMappingShape ==
  wpc = "returned" =>
    /\ DOMAIN weather = Cities
    /\ \A c \in Cities : IsSuccessRecord(weather[c]) \/ IsFailureRecord(weather[c])

\* C1 witness: a returned mapping after a network error, a non-2xx status
\* and a 2xx body with a missing field, one per city.
C1_Witness ==
  /\ wpc = "returned"
  /\ weatherEnv.resps = <<NetError, HttpResponse(401, NotJson), MissingFieldWeather>>

\* C2: no outcome of the sources or of the SMTP session ends the process
\* abnormally; the run always goes on towards "Script finished.".
C2_NeverTerminatesAbnormally == pcMain # "crashed"

\* C3: no source client lets an exception pass its boundary, whatever step
\* of its invocation failed; each returns a value of its result shape.
C3_ClientsNeverRaise ==
  /\ wpc # "raised" /\ npc # "raised" /\ dpc # "raised"
  /\ npc = "returned" /\ newsEnv.close = "failed" => news.t = "list"
  /\ dpc = "returned" /\ wordEnv.close = "failed" => word_day.t = "dict"

\* C4: when the news endpoint answered with a non-success status, the news
\* sequence has exactly one entry, titled "Error fetching news", whose
\* description contains that response's status code.
C4_StatusErrorNamesCode ==
  (/\ npc = "returned"
   /\ newsEnv.resps # <<>>
   /\ newsEnv.resps[1].net = "ok"
   /\ ~IsSuccessStatus(newsEnv.resps[1].status)) =>
    /\ news.t = "list"
    /\ Len(news.v) = 1
    /\ news.v[1].v.title = JStr("Error fetching news")
    /\ Contains(news.v[1].v.description, StatusText(newsEnv.resps[1].status))

NotSetRecord == WordRecord(JStr("N/A"), JStr("WORDNIK_API_KEY not set."))

KeyUnsetOrEmpty == WORDNIK_API_KEY \in {JNull, JStr("")}

\* C5 as claimed: without a key, no HTTP call and the N/A record; with a
\* key, exactly one HTTP GET.
C5_ExactlyOneGetWithKey ==
  dpc = "returned" =>
    IF KeyUnsetOrEmpty
      THEN wordGets = 0 /\ word_day = NotSetRecord
      ELSE wordGets = 1

\* C5 amended: without a key (unset or empty) get_word_of_the_day makes no
\* HTTP call, not even constructing a client, and returns the N/A record;
\* with a key it issues exactly one GET when the HTTP client was
\* constructed and none when constructing it failed.
C5_GetsFollowKeyAndClient ==
  /\ KeyUnsetOrEmpty => wordGets = 0 /\ wordEnv = NoEnv
  /\ dpc = "returned" =>
       IF KeyUnsetOrEmpty
         THEN word_day = NotSetRecord
         ELSE wordGets = (IF wordEnv.create = "ok" THEN 1 ELSE 0)

\* C5 witness: the call returned with the key set to the empty string.
C5_Witness ==
  /\ WORDNIK_API_KEY = JStr("")
  /\ dpc = "returned"
  /\ word_day = NotSetRecord

SkipNotice == "Email credentials not set. Skipping email delivery."

WasPrinted(line) == \E i \in 1..Len(console) : console[i] = line

AnyCredentialMissing ==
  \/ SENDER_EMAIL \in {JNull, JStr("")}
  \/ SENDER_PASSWORD \in {JNull, JStr("")}
  \/ RECEIVER_EMAIL \in {JNull, JStr("")}

\* C6: when the sender email, the sender password or the recipient is
\* empty or unset, send_email opens no SMTP connection and issues no SMTP
\* command, prints the skip notice, and the run goes on to "Script
\* finished.".
C6_NoDeliveryWithoutCredentials ==
  AnyCredentialMissing =>
    /\ smtpSessions = 0 /\ smtpLog = <<>> /\ sentMessages = 0 /\ spc = "idle"
    /\ pcMain # "sending"
    /\ pcMain \in {"finish", "done"} => WasPrinted(SkipNotice)
    /\ pcMain = "done" => console[Len(console)] = "Script finished."

\* C6 witness: a finished run whose sender email is set and whose password
\* is not.
C6_Witness ==
  /\ SENDER_EMAIL = JStr("set")
  /\ SENDER_PASSWORD = JNull
  /\ pcMain = "done"
  /\ WasPrinted(SkipNotice)

\* C7: the sequence get_news_headlines returns has at most 3 entries,
\* however many articles the response body holds.
C7_AtMostPageSize ==
  npc = "returned" /\ news.t = "list" => Len(news.v) <= PageSize

\* What each client returns, from what the outside world did to that
\* client alone.
WeatherOf(env) ==
  [c \in Cities |->
     WeatherRecord(env.resps[CHOOSE i \in 1..Len(CITIES) : CITIES[i] = c])]

NewsOf(env) ==
  IF env.create = "failed" THEN NewsResult(Raise("Exception", "ClientInitError"))
  ELSE NewsResult(AfterExit(NewsBody(env.resps[1]), env.close = "ok", "CloseError"))

WordOf(key, env) ==
  IF key \in {JNull, JStr("")} THEN NotSetRecord
  ELSE IF env.create = "failed" THEN WordResult(Raise("Exception", "ClientInitError"))
  ELSE WordResult(AfterExit(WordBody(env.resps[1]), env.close = "ok", "CloseError"))

\* C8: with the three fetches run in any order and interleaved, each part
\* of the Briefing is what its own endpoint's answers determine, the same
\* as in the order weather, news, word; what happened to another source
\* changes nothing.
C8_BriefingIndependentOfOrder ==
  /\ wpc = "returned" => weather = WeatherOf(weatherEnv)
  /\ npc = "returned" => news = NewsOf(newsEnv)
  /\ dpc = "returned" => word_day = WordOf(WORDNIK_API_KEY, wordEnv)
  /\ pcMain \in {"send", "sending", "finish", "done"} =>
       wpc = "returned" /\ npc = "returned" /\ dpc = "returned"

\* C8 witness: the word client returned first, with a failure, then the
\* news client, while the weather loop is still at its second city.
C8_Witness ==
  /\ sched = "any"
  /\ dpc = "returned" /\ word_day.v.word = JStr("Error")
  /\ npc = "returned" /\ news.t = "list" /\ Len(news.v) = PageSize
  /\ wpc = "loop" /\ wi = 2

RunEnded == wpc \in {"returned", "raised"}

\* C9 as claimed: every run of get_weather_data issues exactly one GET for
\* each configured city, in list order.
C9_OneGetPerCityInEveryRun == RunEnded => weatherGets = CITIES

\* C9 amended: when constructing the HTTP client fails, get_weather_data
\* issues no GET at all; otherwise it issues exactly one GET for each
\* configured city, in list order, whatever the outcome for the cities
\* before it, and the record of each city is a success record exactly when
\* its own response was a well-formed 2xx, whatever the other cities got.
C9_OneGetPerCityOnceClientExists ==
  /\ weatherGets = SubSeq(CITIES, 1, wi - 1)
  /\ Len(weatherEnv.resps) = Len(weatherGets)
  /\ weatherEnv.create = "failed" => weatherGets = <<>>
  /\ RunEnded /\ weatherEnv.create = "ok" => weatherGets = CITIES
  /\ wpc \in {"loop", "returned"} =>
       \A i \in 1..Len(weatherGets) :
         /\ CITIES[i] \in DOMAIN weather_data
         /\ IsSuccessRecord(weather_data[CITIES[i]]) <=> weatherEnv.resps[i] = WellFormedWeather
         /\ IsFailureRecord(weather_data[CITIES[i]]) <=> weatherEnv.resps[i] # WellFormedWeather

\* C9 witness: the first city failed in the transport, the second with a
\* status, and the third was still requested and succeeded.
C9_Witness ==
  /\ wpc = "returned"
  /\ weatherEnv.resps = <<NetError, HttpResponse(401, NotJson), WellFormedWeather>>
  /\ IsSuccessRecord(weather[CITIES[3]])

AuthNotice ==
  "Error: SMTP authentication failed. Check your email/password or app password."

GenericNotice == "An error occurred while sending the email"

Commands == [i \in 1..Len(smtpLog) |-> smtpLog[i][1]]

\* C10: at most one SMTP session; STARTTLS, login, send_message in that
\* order; the success line only after all three succeeded; a refused login
\* reported by the authentication message; and whenever a failure is
\* reported no message was sent, nothing is retried and send_email returns.
C10_DeliveryReportsMatchOutcome ==
  /\ smtpSessions <= 1
  /\ Commands = SubSeq(<<"starttls", "login", "send_message">>, 1, Len(smtpLog))
  /\ WasPrinted("Email sent successfully!") =>
       smtpLog = <<<<"starttls", "ok">>, <<"login", "ok">>, <<"send_message", "ok">>>>
  /\ (spc = "closed" /\ \E i \in 1..Len(smtpLog) : smtpLog[i] = <<"login", "refused">>) =>
       WasPrinted(AuthNotice)
  /\ WasPrinted(AuthNotice) \/ WasPrinted(GenericNotice) => sentMessages = 0
  /\ spc = "closed" => pcMain \in {"finish", "done"}

====
